---------------------------- MODULE Spec2Model ----------------------------
(***************************************************************************)
(* Model of the uplive-video-translator pipeline:                          *)
(*   src/src/gemini_client.py  GeminiClient.translate_lines                *)
(*   src/src/tts.py            _time_stretch_to_duration,                  *)
(*                             synthesize_translated_audio                 *)
(*   src/src/transcription.py  format_timestamp, write_srt                 *)
(*   src/src/pipeline.py       VideoTranslationPipeline.run                *)
(*                                                                         *)
(* Python floats are IEEE-754 binary64 values.  They are modelled as       *)
(* non-negative binary floating-point numbers with a Prec-bit significand, *)
(* and every float operation of the code is computed exactly and then      *)
(* rounded once, to nearest, ties to even.                                 *)
(***************************************************************************)
EXTENDS Integers, Sequences, FiniteSets, TLC

(***************************************************************************)
(* Natural numbers wider than TLC's integers: sequences of LimbBits-bit    *)
(* limbs, least significant first, without leading zero limbs (<<>> is 0). *)
(* The arithmetic is written as functions, whose arguments TLC evaluates   *)
(* before the body.                                                        *)
(***************************************************************************)
LimbBits == 15

Pow2(k) ==
    <<1, 2, 4, 8, 16, 32, 64, 128, 256, 512, 1024, 2048, 4096, 8192, 16384,
      32768, 65536>>[k + 1]

Base == Pow2(LimbBits)

Limbs == Seq(0..(Base - 1))

Small == 0..(Pow2(16) - 1)

Limb(x, i) == IF i <= Len(x) THEN x[i] ELSE 0

Trim[x \in Limbs] ==
    IF x = <<>> \/ x[Len(x)] # 0 THEN x ELSE Trim[SubSeq(x, 1, Len(x) - 1)]

NatOfInt[n \in Nat] ==
    IF n = 0 THEN <<>> ELSE <<n % Base>> \o NatOfInt[n \div Base]

IntOfNat[x \in Limbs] ==
    IF x = <<>> THEN 0 ELSE x[1] + Base * IntOfNat[Tail(x)]

AddFrom[x \in Limbs, y \in Limbs, i \in Nat, carry \in 0..1] ==
    IF i > Len(x) /\ i > Len(y)
    THEN IF carry = 0 THEN <<>> ELSE <<carry>>
    ELSE LET t == Limb(x, i) + Limb(y, i) + carry
         IN  <<t % Base>> \o AddFrom[x, y, i + 1, t \div Base]

NatAdd[x \in Limbs, y \in Limbs] == AddFrom[x, y, 1, 0]

\* x - y for x >= y.
SubFrom[x \in Limbs, y \in Limbs, i \in Nat, borrow \in 0..1] ==
    IF i > Len(x) THEN <<>>
    ELSE LET t == x[i] - Limb(y, i) - borrow
         IN  <<IF t < 0 THEN t + Base ELSE t>>
                 \o SubFrom[x, y, i + 1, IF t < 0 THEN 1 ELSE 0]

NatSub[x \in Limbs, y \in Limbs] == Trim[SubFrom[x, y, 1, 0]]

\* x * n for n < 2^16.
MulFrom[x \in Limbs, n \in Small, i \in Nat, carry \in Nat] ==
    IF i > Len(x) THEN NatOfInt[carry]
    ELSE LET t == x[i] * n + carry
         IN  <<t % Base>> \o MulFrom[x, n, i + 1, t \div Base]

NatMul[x \in Limbs, n \in Small] == IF n = 0 THEN <<>> ELSE MulFrom[x, n, 1, 0]

\* Quotient and remainder of x by d, 0 < d < 2^16, from the top limb down.
DivFrom[x \in Limbs, d \in Small, i \in Nat, rem \in Nat] ==
    IF i = 0 THEN [q |-> <<>>, r |-> rem]
    ELSE LET cur  == rem * Base + x[i]
             rest == DivFrom[x, d, i - 1, cur % d]
         IN  [q |-> Append(rest.q, cur \div d), r |-> rest.r]

NatDivMod[x \in Limbs, d \in Small] ==
    LET r == DivFrom[x, d, Len(x), 0] IN [q |-> Trim[r.q], r |-> r.r]

NatLess[x \in Limbs, y \in Limbs] ==
    IF Len(x) # Len(y) THEN Len(x) < Len(y)
    ELSE \E i \in 1..Len(x) :
            /\ x[i] < y[i]
            /\ \A j \in (i + 1)..Len(x) : x[j] = y[j]

\* x * 2^k and floor(x / 2^k).
Shl[x \in Limbs, k \in Nat] ==
    IF x = <<>> THEN <<>>
    ELSE [i \in 1..(k \div LimbBits) |-> 0] \o NatMul[x, Pow2(k % LimbBits)]

Shr[x \in Limbs, k \in Nat] ==
    IF k \div LimbBits >= Len(x) THEN <<>>
    ELSE NatDivMod[SubSeq(x, k \div LimbBits + 1, Len(x)), Pow2(k % LimbBits)].q

\* Bit i of x (bit 0 is the least significant), and whether bits 0..k-1 are 0.
Bit(x, i) == (Limb(x, i \div LimbBits + 1) \div Pow2(i % LimbBits)) % 2

LowZero(x, k) ==
    /\ \A i \in 1..(k \div LimbBits) : Limb(x, i) = 0
    /\ Limb(x, k \div LimbBits + 1) % Pow2(k % LimbBits) = 0

BitLen(x) ==
    IF x = <<>> THEN 0
    ELSE LimbBits * (Len(x) - 1)
            + (CHOOSE k \in 1..LimbBits :
                   Pow2(k - 1) <= x[Len(x)] /\ x[Len(x)] < Pow2(k))

(***************************************************************************)
(* Binary64 arithmetic.  A float is [e |-> exponent, sig |-> significand]: *)
(* the significand is a Prec-bit natural number with its top bit set, and  *)
(* the value is sig * 2^(e - Prec + 1).  Zero is [e |-> 0, sig |-> <<>>].  *)
(***************************************************************************)
Prec == 53

Float == [e : Int, sig : Limbs]

FZero == [e |-> 0, sig |-> <<>>]

\* The float nearest to x * 2^ex (ties to even); `sticky` tells that the exact
\* value lies strictly between x * 2^ex and (x + 1) * 2^ex.
RoundNat[x \in Limbs, ex \in Int, sticky \in BOOLEAN] ==
    LET len == BitLen(x)
        s   == len - Prec
    IN  IF len = 0 THEN FZero
        ELSE IF s <= 0 THEN [e |-> ex + len - 1, sig |-> Shl[x, 0 - s]]
        ELSE LET q    == Shr[x, s]
                 half == Bit(x, s - 1) = 1
                 rest == sticky \/ ~LowZero(x, s - 1)
                 up   == half /\ (rest \/ Bit(q, 0) = 1)
                 q1   == NatAdd[q, <<1>>]
             IN  IF ~up THEN [e |-> ex + len - 1, sig |-> q]
                 ELSE IF BitLen(q1) = Prec THEN [e |-> ex + len - 1, sig |-> q1]
                 ELSE [e |-> ex + len, sig |-> Shr[q1, 1]]

\* float(n) for a natural number n.
FloatOfInt[n \in Nat] == RoundNat[NatOfInt[n], 0, FALSE]

\* a / b as Python computes it for floats holding the integers a >= 0 and
\* 0 < b < 2^16: the exact quotient, rounded once.
DivShift == 5 * LimbBits

FloatDiv[a \in Nat, b \in Small] ==
    LET d == NatDivMod[Shl[NatOfInt[a], DivShift], b]
    IN  RoundNat[d.q, 0 - DivShift, d.r # 0]

\* x < y and x <= y.
FloatLt[x \in Float, y \in Float] ==
    IF y.sig = <<>> THEN FALSE
    ELSE IF x.sig = <<>> THEN TRUE
    ELSE IF x.e # y.e THEN x.e < y.e
    ELSE NatLess[x.sig, y.sig]

FloatLe[x \in Float, y \in Float] == ~FloatLt[y, x]

\* x + y, rounded once.
FloatAdd[x \in Float, y \in Float] ==
    IF x.sig = <<>> THEN y
    ELSE IF y.sig = <<>> THEN x
    ELSE LET lo == IF x.e < y.e THEN x.e ELSE y.e
         IN  RoundNat[NatAdd[Shl[x.sig, x.e - lo], Shl[y.sig, y.e - lo]],
                      lo - Prec + 1, FALSE]

\* abs(x - y), rounded once (rounding is symmetric in the sign).
FloatAbsDiff[x \in Float, y \in Float] ==
    LET swap == FloatLt[x, y]
        hi   == IF swap THEN y ELSE x
        lo   == IF swap THEN x ELSE y
    IN  IF lo.sig = <<>> THEN hi
        ELSE RoundNat[NatSub[Shl[hi.sig, hi.e - lo.e], lo.sig],
                      lo.e - Prec + 1, FALSE]

\* n * x for the float x and the integer 0 <= n < 2^16, rounded once.
FloatMulInt[n \in Small, x \in Float] ==
    RoundNat[NatMul[x.sig, n], x.e - Prec + 1, FALSE]

\* int(x): truncation toward zero (x >= 0).
FloatTrunc[x \in Float] ==
    IF x.sig = <<>> \/ x.e < 0 THEN 0
    ELSE IntOfNat[Shr[x.sig, Prec - 1 - x.e]]

\* round(x): to the nearest integer, ties to even (x >= 0).
FloatRound[x \in Float] ==
    LET s == Prec - 1 - x.e
    IN  IF x.sig = <<>> \/ s > Prec THEN 0
        ELSE IF s <= 0 THEN IntOfNat[Shl[x.sig, 0 - s]]
        ELSE LET n    == IntOfNat[Shr[x.sig, s]]
                 half == Bit(x.sig, s - 1) = 1
                 rest == ~LowZero(x.sig, s - 1)
             IN  IF half /\ (rest \/ n % 2 = 1) THEN n + 1 ELSE n

(***************************************************************************)
(* pydub.AudioSegment as the code uses it: raw data of `frames` frames at  *)
(* `frame_rate` frames per second.                                         *)
(***************************************************************************)
\* None, where a float or a clip may stand.
Null == [none |-> TRUE]

AudioSegment(frames, frame_rate) == [frames |-> frames, frame_rate |-> frame_rate]

\* len(piece): round(1000 * (frame_count / frame_rate)), in milliseconds.
ClipLen(piece) ==
    FloatRound[FloatMulInt[1000, FloatDiv[piece.frames, piece.frame_rate]]]

Gcd[a \in Nat, b \in Nat] == IF b = 0 THEN a ELSE Gcd[b, a % b]

\* piece.set_frame_rate(rate): the data resampled by audioop.ratecv, which
\* emits output frame j while j * inrate <= (frames - 1) * outrate, the two
\* rates divided by their greatest common divisor.
set_frame_rate(piece, rate) ==
    IF rate = piece.frame_rate \/ piece.frames = 0
    THEN AudioSegment(piece.frames, rate)
    ELSE LET g       == Gcd[piece.frame_rate, rate]
             inrate  == piece.frame_rate \div g
             outrate == rate \div g
             last    == NatDivMod[NatMul[NatOfInt[piece.frames - 1], outrate],
                                  inrate].q
         IN  AudioSegment(IntOfNat[last] + 1, rate)

\* piece._spawn(piece.raw_data, overrides={"frame_rate": rate}).
spawn_frame_rate(piece, rate) == AudioSegment(piece.frames, rate)

\* The float literals of _time_stretch_to_duration.
One == FloatOfInt[1]
max_change == FloatDiv[25, 100]
close_enough == FloatDiv[5, 100]

\* The ratio left unclamped: a variant the timing properties must tell from
\* ClampRatio.
ClampRatioOff(ratio) == ratio

\* if ratio > hi: ratio = hi; elif ratio < lo: ratio = lo
Clamp(ratio, lo, hi) ==
    IF FloatLt[hi, ratio] THEN hi
    ELSE IF FloatLt[ratio, lo] THEN lo
    ELSE ratio

\* ratio after the clamp to [1 - max_change, 1 + max_change].
ClampRatio(ratio) ==
    Clamp(ratio, FloatAbsDiff[One, max_change], FloatAdd[One, max_change])

\* new_frame_rate = int(piece.frame_rate * ratio), ratio clamped.
NewFrameRate(piece, ratio) ==
    FloatTrunc[FloatMulInt[piece.frame_rate, ClampRatio(ratio)]]

\* The end of _time_stretch_to_duration, from the guard on new_frame_rate.
Respawn(piece, new_frame_rate) ==
    IF new_frame_rate <= 0 THEN piece
    ELSE set_frame_rate(spawn_frame_rate(piece, new_frame_rate),
                        piece.frame_rate)

\* _time_stretch_to_duration from the point where ratio is known.
StretchBy(piece, ratio) ==
    IF FloatLt[FloatAbsDiff[ratio, One], close_enough] THEN piece
    ELSE Respawn(piece, NewFrameRate(piece, ratio))

\* _time_stretch_to_duration, len_ms being len(piece).
StretchFrom(piece, len_ms, target_ms) ==
    IF target_ms <= 0 \/ len_ms = 0 THEN piece
    ELSE StretchBy(piece, FloatDiv[len_ms, target_ms])

_time_stretch_to_duration(piece, target_ms) ==
    StretchFrom(piece, ClipLen(piece), target_ms)

(***************************************************************************)
(* Strings.  Char(s, i) is the one-character string at position i of s.    *)
(***************************************************************************)
Char(s, i) == SubSeq(s, i, i)

Digits == {"0", "1", "2", "3", "4", "5", "6", "7", "8", "9"}

Whitespace == {" ", "\n"}

\* None, where a string may stand (no string of the model holds "<").
NoText == "<None>"

\* A string used as a condition: neither None nor empty.
Truthy(s) == s # NoText /\ s # ""

\* s.strip()
Strip(s) ==
    LET keep == {i \in 1..Len(s) : Char(s, i) \notin Whitespace}
    IN  IF keep = {} THEN ""
        ELSE SubSeq(s, CHOOSE i \in keep : \A j \in keep : i <= j,
                       CHOOSE i \in keep : \A j \in keep : j <= i)

\* Index of the first occurrence of character c in s, 0 when there is none.
Find(s, c) ==
    IF \E i \in 1..Len(s) : Char(s, i) = c
    THEN CHOOSE i \in 1..Len(s) :
             Char(s, i) = c /\ \A j \in 1..(i - 1) : Char(s, j) # c
    ELSE 0

\* s.splitlines()
RECURSIVE splitlines(_)
splitlines(s) ==
    IF s = "" THEN <<>>
    ELSE LET n == Find(s, "\n")
         IN  IF n = 0 THEN <<s>>
             ELSE <<SubSeq(s, 1, n - 1)>> \o splitlines(SubSeq(s, n + 1, Len(s)))

\* s.split(c, 1)[1] when c occurs in s.
AfterFirst(s, c) == SubSeq(s, Find(s, c) + 1, Len(s))

\* "\n".join(lines)
RECURSIVE JoinLines(_)
JoinLines(lines) ==
    IF lines = <<>> THEN ""
    ELSE IF Len(lines) = 1 THEN lines[1]
    ELSE lines[1] \o "\n" \o JoinLines(Tail(lines))

\* str(n) for a natural number n, and n formatted as {n:0<width>d}.
Digit(d) == Char("0123456789", d + 1)

RECURSIVE Str(_)
Str(n) == IF n < 10 THEN Digit(n) ELSE Str(n \div 10) \o Digit(n % 10)

ZeroPad(n, width) ==
    SubSeq("000", 1, width - Len(Str(n))) \o Str(n)

(***************************************************************************)
(* src/src/transcription.py                                                *)
(* A SubtitleSegment is a record index, start, end, text, translated_text, *)
(* actual_start, actual_end.  start and end are floats holding whole       *)
(* seconds, kept here as the natural number of seconds; actual_start and   *)
(* actual_end are floats or Null.                                          *)
(***************************************************************************)
SubtitleSegment(index, start, end, text) ==
    [index |-> index, start |-> start, end |-> end, text |-> text,
     translated_text |-> NoText, actual_start |-> Null, actual_end |-> Null]

\* format_timestamp(seconds) for the float `seconds`.
format_timestamp(seconds) ==
    LET millis  == FloatRound[FloatMulInt[1000, seconds]]
        hours   == millis \div 3600000
        rem     == millis % 3600000
        minutes == rem \div 60000
        secs    == (rem % 60000) \div 1000
    IN  ZeroPad(hours, 2) \o ":" \o ZeroPad(minutes, 2) \o ":"
            \o ZeroPad(secs, 2) \o "," \o ZeroPad(millis % 1000, 3)

Arrow == " --> "

\* write_srt selecting the text by the flag alone, without the fall-back to
\* seg.text: a variant the subtitle properties must tell from SelectedText.
SelectedTextNoFallback(seg, use_translated) ==
    IF use_translated THEN seg.translated_text ELSE seg.text

\* The text write_srt selects for a segment.
SelectedText(seg, use_translated) ==
    IF use_translated /\ Truthy(seg.translated_text)
    THEN seg.translated_text ELSE seg.text

\* The lines write_srt appends for one segment.
SrtBlock(seg, use_translated, use_actual_timing) ==
    IF ~Truthy(SelectedText(seg, use_translated)) THEN <<>>
    ELSE << Str(seg.index),
            IF use_actual_timing /\ seg.actual_start # Null
                                 /\ seg.actual_end # Null
            THEN format_timestamp(seg.actual_start) \o Arrow
                     \o format_timestamp(seg.actual_end)
            ELSE format_timestamp(FloatOfInt[seg.start]) \o Arrow
                     \o format_timestamp(FloatOfInt[seg.end]),
            Strip(SelectedText(seg, use_translated)),
            "" >>

RECURSIVE SrtLines(_, _, _)
SrtLines(segs, use_translated, use_actual_timing) ==
    IF segs = <<>> THEN <<>>
    ELSE SrtBlock(Head(segs), use_translated, use_actual_timing)
            \o SrtLines(Tail(segs), use_translated, use_actual_timing)

\* The content write_srt writes to the file at `path`.
write_srt(segs, use_translated, use_actual_timing) ==
    JoinLines(SrtLines(segs, use_translated, use_actual_timing))

(***************************************************************************)
(* src/src/gemini_client.py: GeminiClient.translate_lines, from the text   *)
(* of the backend's response on.                                           *)
(***************************************************************************)
\* The primary loop keeping every non-empty line whole, marker included: a
\* variant the parsing properties must tell from ParseLine.
ParseLineKeepsMarker(raw_line) ==
    IF raw_line = "" THEN <<>> ELSE <<raw_line>>

\* What the primary loop appends for one line of the response.
ParseLine(raw_line) ==
    IF raw_line = "" THEN <<>>
    ELSE IF Find(raw_line, ".") # 0 /\ Char(raw_line, 1) \in Digits
         THEN <<Strip(AfterFirst(raw_line, "."))>>
    ELSE IF Find(raw_line, ")") # 0 /\ Char(raw_line, 1) \in Digits
         THEN <<Strip(AfterFirst(raw_line, ")"))>>
    ELSE <<raw_line>>

RECURSIVE ParseLines(_)
ParseLines(ls) ==
    IF ls = <<>> THEN <<>>
    ELSE ParseLine(Strip(Head(ls))) \o ParseLines(Tail(ls))

\* `translated` when the primary loop ends.
translated(text) == ParseLines(splitlines(text))

\* re.match(r'^\d+[\.\)]\s*(.+)', line): the number of leading digits, whether
\* the pattern matches, and its group 1.
LeadingDigits(line) ==
    IF \A i \in 1..Len(line) : Char(line, i) \in Digits THEN Len(line)
    ELSE (CHOOSE i \in 1..Len(line) :
              /\ Char(line, i) \notin Digits
              /\ \A j \in 1..(i - 1) : Char(line, j) \in Digits) - 1

MarkerMatch(line) ==
    LET d == LeadingDigits(line)
    IN  d >= 1 /\ d + 2 <= Len(line) /\ Char(line, d + 1) \in {".", ")"}

MarkerGroup(line) ==
    LET rest == SubSeq(line, LeadingDigits(line) + 2, Len(line))
        solid == {i \in 1..Len(rest) : Char(rest, i) \notin Whitespace}
    IN  IF solid = {} THEN Char(rest, Len(rest))
        ELSE SubSeq(rest, CHOOSE i \in solid : \A j \in solid : i <= j, Len(rest))

\* What the lenient loop appends for one (stripped) line of the response.
FallbackLine(line) ==
    IF line # "" /\ Char(line, 1) \notin Digits THEN <<>>
    ELSE IF MarkerMatch(line) THEN <<Strip(MarkerGroup(line))>>
    ELSE IF line # "" /\ \A i \in 1..Len(line) : Char(line, i) \notin Digits
         THEN <<line>>
    ELSE <<>>

RECURSIVE FallbackLines(_)
FallbackLines(ls) ==
    IF ls = <<>> THEN <<>>
    ELSE FallbackLine(Strip(Head(ls))) \o FallbackLines(Tail(ls))

\* `fallback_translated` when the lenient loop ends.
fallback_translated(text) == FallbackLines(splitlines(text))

\* [t for t in translated if t]
RECURSIVE NonEmpty(_)
NonEmpty(ls) ==
    IF ls = <<>> THEN <<>>
    ELSE (IF Head(ls) = "" THEN <<>> ELSE <<Head(ls)>>) \o NonEmpty(Tail(ls))

\* translate_lines(lines) when the backend answers response_text.
translate_lines(lines, response_text) ==
    LET text == Strip(response_text)
    IN  IF lines = <<>> THEN <<>>
        ELSE IF Len(translated(text)) # Len(lines)
             THEN IF Len(fallback_translated(text)) = Len(lines)
                  THEN fallback_translated(text)
                  ELSE IF NonEmpty(translated(text)) # <<>>
                       THEN NonEmpty(translated(text))
                       ELSE splitlines(text)
        ELSE translated(text)

(***************************************************************************)
(* src/src/tts.py: the sequential arrangement of synthesize_translated_    *)
(* audio.  Segments are referred to by their position in the segment list. *)
(***************************************************************************)
\* sorted(items, key=lambda x: start of x's segment): a stable insertion sort.
\* Each item is a record with a field seg.
RECURSIVE SortedByStart(_, _)
SortedByStart(items, segs) ==
    IF items = <<>> THEN <<>>
    ELSE LET front == SortedByStart(SubSeq(items, 1, Len(items) - 1), segs)
             x     == items[Len(items)]
             n     == Cardinality({i \in 1..Len(front) :
                          segs[front[i].seg].start <= segs[x.seg].start})
         IN  SubSeq(front, 1, n) \o <<x>> \o SubSeq(front, n + 1, Len(front))

\* [s for s in segments if s.translated_text], as positions, in list order.
RECURSIVE TranslatedFrom(_, _)
TranslatedFrom(segs, i) ==
    IF i > Len(segs) THEN <<>>
    ELSE (IF Truthy(segs[i].translated_text) THEN <<[seg |-> i]>> ELSE <<>>)
            \o TranslatedFrom(segs, i + 1)

\* ordered_segments without the filter on translated_text: a variant the
\* lifecycle properties must tell from OrderedSegments.
OrderedSegmentsUnfiltered(segs) ==
    SortedByStart([i \in 1..Len(segs) |-> [seg |-> i]], segs)

\* ordered_segments
OrderedSegments(segs) == SortedByStart(TranslatedFrom(segs, 1), segs)

\* seg_duration_ms = int((seg.end - seg.start) * 1000)
SegDurationMs(seg) ==
    IF seg.end < seg.start THEN 0
    ELSE FloatTrunc[FloatMulInt[1000, FloatAbsDiff[FloatOfInt[seg.end],
                                                   FloatOfInt[seg.start]]]]

\* adjusted, seg_duration_ms being known.
AdjustedTo(seg_duration_ms, piece) ==
    IF seg_duration_ms > 0
    THEN _time_stretch_to_duration(piece, seg_duration_ms)
    ELSE piece

\* adjusted: the clip the loop places for one (seg, piece) pair.
Adjusted(seg, piece) == AdjustedTo(SegDurationMs(seg), piece)

\* actual_end_seconds = actual_start_seconds + actual_duration_seconds,
\* len_ms being len(adjusted).
ActualEnd(actual_start_seconds, len_ms) ==
    FloatAdd[actual_start_seconds, FloatDiv[len_ms, 1000]]

\* The loop body after adjusted was chosen, for segment k: the timing
\* recorded, the clip appended, the cursor advanced by len_ms = len(adjusted).
Record(st, k, adjusted, len_ms, actual_start_seconds) ==
    [audio_segments |-> Append(st.audio_segments, adjusted),
     current_pos_ms |-> st.current_pos_ms + len_ms,
     segments |->
        [st.segments EXCEPT
            ![k].actual_start = actual_start_seconds,
            ![k].actual_end = ActualEnd(actual_start_seconds, len_ms)]]

PlaceAdjusted(st, k, adjusted) ==
    Record(st, k, adjusted, ClipLen(adjusted),
           FloatDiv[st.current_pos_ms, 1000])

\* One turn of the loop over pieces_sorted, for the pair `pair`, from the
\* loop state st: the segments, the cursor and the clips placed so far.
Place(st, pair) ==
    PlaceAdjusted(st, pair.seg, Adjusted(st.segments[pair.seg], pair.piece))

\* The loop state after the first n pairs of `sorted`.
RECURSIVE Arrange(_, _, _)
Arrange(sorted, n, segs) ==
    IF n = 0
    THEN [audio_segments |-> <<>>, current_pos_ms |-> 0, segments |-> segs]
    ELSE Place(Arrange(sorted, n - 1, segs), sorted[n])

\* seg1 + seg2: both brought to the higher frame rate, the data concatenated.
AppendClip(seg1, seg2) ==
    LET rate == IF seg1.frame_rate > seg2.frame_rate
                THEN seg1.frame_rate ELSE seg2.frame_rate
    IN  AudioSegment(set_frame_rate(seg1, rate).frames
                        + set_frame_rate(seg2, rate).frames, rate)

RECURSIVE SumClips(_)
SumClips(audio) ==
    IF Len(audio) = 1 THEN audio[1]
    ELSE AppendClip(SumClips(SubSeq(audio, 1, Len(audio) - 1)), audio[Len(audio)])

\* combined: sum(audio_segments), or AudioSegment.silent(duration=0).
Combined(audio) ==
    IF audio # <<>> THEN SumClips(audio) ELSE AudioSegment(0, 11025)

(***************************************************************************)
(* State.                                                                  *)
(***************************************************************************)
VARIABLES
    call,             \* a single function under test: arguments and result
    pc,               \* where the coordinating thread of run() stands
    segments,         \* the segment list made by transcription
    response,         \* the text the translation backend answers
    translated_lines, \* what translate_lines returned
    tts,              \* per segment, what the synthesis backend yields
    futures,          \* per submitted task: "running", "done" or "failed"
    completed,        \* finished tasks as_completed has not yielded yet
    pieces,           \* (seg, piece) pairs in the order they were collected
    pieces_sorted,    \* pieces in sequencing order
    audio_segments,   \* the clips placed, in sequencing order
    combined,         \* the exported track
    returned,         \* actual_total_duration_seconds
    files             \* the subtitle files written

run == <<pc, segments, response, translated_lines, tts, futures, completed,
         pieces, pieces_sorted, audio_segments, combined, returned, files>>

vars == <<call, run>>

\* The synthesis backend failing for a segment (gTTS or the decoder raising).
TtsError == [error |-> TRUE]

NoFiles == [original_srt |-> NoText, translated_srt |-> NoText]

\* No run in progress: the state of the specifications of single functions.
NoRun ==
    /\ pc = "idle" /\ segments = <<>> /\ response = ""
    /\ translated_lines = <<>> /\ tts = <<>> /\ futures = <<>>
    /\ completed = <<>> /\ pieces = <<>> /\ pieces_sorted = <<>>
    /\ audio_segments = <<>> /\ combined = Null /\ returned = Null
    /\ files = NoFiles

(***************************************************************************)
(* src/src/pipeline.py: VideoTranslationPipeline.run, from the transcribed *)
(* segments on, and the stages of synthesize_translated_audio.             *)
(***************************************************************************)
\* for seg, translated in zip(segments, translated_lines): ...
ZipTranslated(segs, lines) ==
    [i \in 1..Len(segs) |->
        IF i <= Len(lines) THEN [segs[i] EXCEPT !.translated_text = lines[i]]
        ELSE segs[i]]

Translate ==
    /\ pc = "translate"
    /\ LET lines == [i \in 1..Len(segments) |-> segments[i].text]
           out   == translate_lines(lines, response)
       IN  /\ translated_lines' = out
           /\ segments' = ZipTranslated(segments, out)
    /\ pc' = "synthesize"
    /\ UNCHANGED <<call, response, tts, futures, completed, pieces,
                   pieces_sorted, audio_segments, combined, returned, files>>

\* ordered_segments is built and every one of them submitted to the pool.
\* max_workers = min(8, len(ordered_segments)) and the lists here are shorter
\* than 8, so every task runs from its submission on.
Submit ==
    /\ pc = "synthesize"
    /\ futures' = [k \in 1..Len(OrderedSegments(segments)) |-> "running"]
    /\ pc' = IF OrderedSegments(segments) = <<>> THEN "assemble" ELSE "collect"
    /\ UNCHANGED <<call, segments, response, translated_lines, tts, completed,
                   pieces, pieces_sorted, audio_segments, combined, returned,
                   files>>

\* A pool thread ends _synthesize_segment for task k: it returns (seg, piece)
\* or raises.
Finish(k) ==
    /\ pc \in {"collect", "unwind"}
    /\ futures[k] = "running"
    /\ futures' = [futures EXCEPT ![k] =
            IF tts[OrderedSegments(segments)[k].seg] = TtsError
            THEN "failed" ELSE "done"]
    /\ completed' = Append(completed, k)
    /\ UNCHANGED <<call, pc, segments, response, translated_lines, tts, pieces,
                   pieces_sorted, audio_segments, combined, returned, files>>

\* One turn of `for future in as_completed(future_to_seg)`: future.result()
\* either gives the pair to append or raises out of the loop.
Collect ==
    /\ pc = "collect"
    /\ completed # <<>>
    /\ completed' = Tail(completed)
    /\ LET k   == Head(completed)
           seg == OrderedSegments(segments)[k].seg
       IN  IF futures[k] = "failed"
           THEN pc' = "unwind" /\ pieces' = pieces
           ELSE /\ pieces' = Append(pieces, [seg |-> seg, piece |-> tts[seg]])
                /\ pc' = IF Len(pieces) + 1 = Len(futures)
                         THEN "assemble" ELSE "collect"
    /\ UNCHANGED <<call, segments, response, translated_lines, tts, futures,
                   pieces_sorted, audio_segments, combined, returned, files>>

\* The exception leaves the `with` block, which waits for the tasks still
\* running, and then synthesize_translated_audio and run().
Unwind ==
    /\ pc = "unwind"
    /\ \A k \in 1..Len(futures) : futures[k] # "running"
    /\ pc' = "raised"
    /\ UNCHANGED <<call, segments, response, translated_lines, tts, futures,
                   completed, pieces, pieces_sorted, audio_segments, combined,
                   returned, files>>

\* What the loop over pieces_sorted leaves, `out` being its last loop state.
Arranged(out) ==
    /\ segments' = out.segments
    /\ audio_segments' = out.audio_segments

\* Lines 92-128: sort, arrange, combine, export and return.
Assemble ==
    /\ pc = "assemble"
    /\ pieces_sorted' = SortedByStart(pieces, segments)
    /\ Arranged(Arrange(pieces_sorted', Len(pieces_sorted'), segments))
    /\ combined' = Combined(audio_segments')
    /\ returned' = FloatDiv[ClipLen(combined'), 1000]
    /\ pc' = "write_srt"
    /\ UNCHANGED <<call, response, translated_lines, tts, futures, completed,
                   pieces, files>>

\* The two write_srt calls of run(); muxing and burn-in are external.
WriteSrt ==
    /\ pc = "write_srt"
    /\ files' = [original_srt   |-> write_srt(segments, FALSE, FALSE),
                 translated_srt |-> write_srt(segments, TRUE, TRUE)]
    /\ pc' = "done"
    /\ UNCHANGED <<call, segments, response, translated_lines, tts, futures,
                   completed, pieces, pieces_sorted, audio_segments, combined,
                   returned>>

\* The stages of synthesize_translated_audio and what follows it in run().
Synthesize ==
    \/ Submit
    \/ \E k \in 1..Len(futures) : Finish(k)
    \/ Collect
    \/ Unwind
    \/ Assemble
    \/ WriteSrt

NoCall == [fn |-> "none"]

\* A run that has not started synthesis yet.
RunStart ==
    /\ call = NoCall
    /\ futures = <<>> /\ completed = <<>> /\ pieces = <<>>
    /\ pieces_sorted = <<>> /\ audio_segments = <<>>
    /\ combined = Null /\ returned = Null /\ files = NoFiles

(***************************************************************************)
(* Spec: run() from the transcribed segments on.  Segment i spans seconds  *)
(* i-1 to i; the backend answers any text of up to MaxSegs lines drawn     *)
(* from RunResponseLines; synthesis yields a clip or fails.                *)
(***************************************************************************)
MaxSegs == 3

RunResponseLines ==
    { "1. a", "2. b", "b" }

LineLists(lineset, max) == UNION {[1..n -> lineset] : n \in 0..max}

RunClip == AudioSegment(24000, 24000)

Init ==
    /\ RunStart
    /\ pc = "translate"
    /\ \E n \in 1..MaxSegs :
        /\ segments = [i \in 1..n |-> SubtitleSegment(i, i - 1, i, "s")]
        /\ tts \in [1..n -> {RunClip, TtsError}]
    /\ response \in {JoinLines(ls) : ls \in LineLists(RunResponseLines, MaxSegs)}
    /\ translated_lines = <<>>

Next == Translate \/ Synthesize

Spec == Init /\ [][Next]_vars

(***************************************************************************)
(* SpecSynth: synthesize_translated_audio called on any list of up to      *)
(* MaxSynthSegs segments with non-decreasing starts within MaxTime         *)
(* seconds, some of them translated, and run() after it.                   *)
(***************************************************************************)
MaxSynthSegs == 3
MaxTime == 1

\* Clips of 100 ms, 200 ms and 100.5 ms at 24 kHz.
SynthClips ==
    {AudioSegment(2400, 24000), AudioSegment(4800, 24000),
     AudioSegment(2412, 24000)}

\* Nominal timings with start <= end, and what translation left.
SynthChoices ==
    {c \in [start : 0..MaxTime, end : 0..MaxTime,
            translated_text : {NoText, "t"}] : c.start <= c.end}

\* Lists of n segments as transcription makes them: indexed from 1, starts
\* non-decreasing.
SynthSegmentLists(n) ==
    { [i \in 1..n |->
         [index |-> i, start |-> c[i].start, end |-> c[i].end,
          text |-> "s", translated_text |-> c[i].translated_text,
          actual_start |-> Null, actual_end |-> Null]] :
      c \in {d \in [1..n -> SynthChoices] :
                \A i \in 1..(n - 1) : d[i].start <= d[i + 1].start} }

InitSynth ==
    /\ RunStart
    /\ pc = "synthesize"
    /\ response = ""
    /\ translated_lines = <<>>
    /\ \E n \in 1..MaxSynthSegs : segments \in SynthSegmentLists(n)
    /\ tts \in [1..Len(segments) -> SynthClips \cup {TtsError}]
    /\ \A i \in 1..Len(segments) :
          ~Truthy(segments[i].translated_text) => tts[i] = TtsError

NextSynth == Synthesize

SpecSynth == InitSynth /\ [][NextSynth]_vars

(***************************************************************************)
(* SpecScenario: synthesize_translated_audio on three translated segments  *)
(* spanning (0,2), (2,5), (5,6) whose clips hold exactly 2500, 2000 and    *)
(* 1200 ms of audio, at any of the usual frame rates, and run() after it.  *)
(* The backend may also fail for a segment, as it may in any run.          *)
(***************************************************************************)
ScenarioRates == {8000, 16000, 22050, 24000, 44100}

ScenarioSegments ==
    [i \in 1..3 |->
        [SubtitleSegment(i, <<0, 2, 5>>[i], <<2, 5, 6>>[i], "s")
            EXCEPT !.translated_text = "t"]]

ScenarioClip(ms, rate) == AudioSegment((ms * (rate \div 50)) \div 20, rate)

InitScenario ==
    /\ RunStart
    /\ pc = "synthesize"
    /\ response = ""
    /\ translated_lines = <<>>
    /\ segments = ScenarioSegments
    /\ \E rate \in ScenarioRates :
          tts \in [1..3 -> {TtsError} \cup
                              {ScenarioClip(ms, rate) : ms \in {2500, 2000, 1200}}]
    /\ \A i \in 1..3 :
          tts[i] # TtsError => ClipLen(tts[i]) = <<2500, 2000, 1200>>[i]

SpecScenario == InitScenario /\ [][NextSynth]_vars

(***************************************************************************)
(* SpecTranslate: translate_lines on its own, for up to MaxLines input     *)
(* lines and any response of up to MaxResponseLines lines.                 *)
(***************************************************************************)
MaxLines == 3
MaxResponseLines == 3

Markers == { "", "1.", "2.", "3.", "2)", "1" }

Bodies == { " a", " b " }

ResponseLines == {""} \cup {m \o b : m \in Markers, b \in Bodies}

InitTranslate ==
    /\ NoRun
    /\ call \in [fn : {"translate_lines"},
                 lines : {[i \in 1..n |-> "s"] : n \in 0..MaxLines},
                 response : {JoinLines(ls) :
                                ls \in LineLists(ResponseLines, MaxResponseLines)},
                 done : {FALSE}, ret : {<<>>}]

CallTranslateLines ==
    /\ call.fn = "translate_lines"
    /\ ~call.done
    /\ call' = [call EXCEPT !.done = TRUE,
                            !.ret = translate_lines(call.lines, call.response)]
    /\ UNCHANGED run

NextTranslate == CallTranslateLines

SpecTranslate == InitTranslate /\ [][NextTranslate]_vars

(***************************************************************************)
(* SpecSrt: write_srt on its own, for any list of up to MaxSrtSegs         *)
(* segments and both flags.                                                *)
(***************************************************************************)
MaxSrtSegs == 3

\* actual_start and actual_end are set together, by the assembler.
SrtTimings == { <<Null, Null>>, <<FloatDiv[1, 10], FloatDiv[3, 10]>> }

SrtSegmentLists(n) ==
    { [i \in 1..n |->
         [index |-> i, start |-> 0, end |-> 1, text |-> c[i].text,
          translated_text |-> c[i].translated_text,
          actual_start |-> c[i].timing[1],
          actual_end |-> c[i].timing[2]]] :
      c \in [1..n -> [text : {"", "s"},
                      translated_text : {NoText, "", "t "},
                      timing : SrtTimings]] }

InitSrt ==
    /\ NoRun
    /\ \E n \in 0..MaxSrtSegs :
          call \in [fn : {"write_srt"}, segments : SrtSegmentLists(n),
                    use_translated : BOOLEAN, use_actual_timing : BOOLEAN,
                    done : {FALSE}, file : {""}]

CallWriteSrt ==
    /\ call.fn = "write_srt"
    /\ ~call.done
    /\ call' = [call EXCEPT !.done = TRUE,
                            !.file = write_srt(call.segments, call.use_translated,
                                               call.use_actual_timing)]
    /\ UNCHANGED run

NextSrt == CallWriteSrt

SpecSrt == InitSrt /\ [][NextSrt]_vars

(***************************************************************************)
(* _time_stretch_to_duration on its own, over a grid of clips and targets. *)
(***************************************************************************)
MaxHalfSeconds == 12

FrameRates == {8000, 11025, 22050, 24000}

StretchClips ==
    {AudioSegment((500 * k * r) \div 1000, r) :
        k \in 0..MaxHalfSeconds, r \in FrameRates}

StretchTargets == {500 * k : k \in 0..(2 * MaxHalfSeconds)}

InitStretch ==
    /\ NoRun
    /\ call \in [fn : {"_time_stretch_to_duration"}, piece : StretchClips,
                 target_ms : StretchTargets, ret : {Null}]

CallTimeStretch ==
    /\ call.fn = "_time_stretch_to_duration"
    /\ call.ret = Null
    /\ call' = [call EXCEPT
                  !.ret = _time_stretch_to_duration(call.piece, call.target_ms)]
    /\ UNCHANGED run

NextStretch == CallTimeStretch

SpecStretch == InitStretch /\ [][NextStretch]_vars

(***************************************************************************)
(* Properties of synthesize_translated_audio (src/src/tts.py).             *)
(***************************************************************************)
\* synthesize_translated_audio has returned.
Returned == pc \in {"write_srt", "done"}

\* The segments that received a clip, in sequencing order: ascending start.
Placed == [i \in 1..Len(pieces_sorted) |-> segments[pieces_sorted[i].seg]]

\* C1: once synthesize_translated_audio has returned, whatever the order in
\* which the tasks completed, the segments that received a clip, taken in
\* ascending start order, form a chain: each has actual_end >= actual_start,
\* the first has actual_start = 0, and each next one starts exactly where the
\* one before it ends.
C1_ZeroGapChain ==
    Returned =>
        /\ \A i \in 1..Len(Placed) :
              FloatLe[Placed[i].actual_start, Placed[i].actual_end]
        /\ Len(Placed) > 0 => Placed[1].actual_start = FZero
        /\ \A i \in 1..(Len(Placed) - 1) :
              Placed[i + 1].actual_start = Placed[i].actual_end

\* The pairs as_completed yields when the tasks complete in the order they
\* were submitted, and what the assembler makes of them.
InOrderPieces ==
    [k \in 1..Len(OrderedSegments(segments)) |->
        [seg   |-> OrderedSegments(segments)[k].seg,
         piece |-> tts[OrderedSegments(segments)[k].seg]]]

InOrderOutcome ==
    Arrange(SortedByStart(InOrderPieces, segments), Len(InOrderPieces), segments)

\* C2: for segments with non-decreasing starts (equal starts included) and a
\* fixed clip per segment, every execution ends with the outcome of the
\* execution whose tasks complete in submission order: the same segments in
\* the same order in the track, the same clips, and the same actual_start and
\* actual_end for every segment.
C2_CompletionOrderIndependence ==
    Returned =>
        /\ [i \in 1..Len(pieces_sorted) |-> pieces_sorted[i].seg]
              = [i \in 1..Len(InOrderPieces) |->
                    SortedByStart(InOrderPieces, segments)[i].seg]
        /\ audio_segments = InOrderOutcome.audio_segments
        /\ \A i \in 1..Len(segments) :
              /\ segments[i].actual_start = InOrderOutcome.segments[i].actual_start
              /\ segments[i].actual_end = InOrderOutcome.segments[i].actual_end

\* The translated segments whose synthesis task fails.
Failing ==
    {i \in 1..Len(segments) :
        Truthy(segments[i].translated_text) /\ tts[i] = TtsError}

\* C3: when the task of exactly one segment fails, the batch is not aborted:
\* no exception leaves synthesize_translated_audio, and when it has returned
\* the track holds the clips of all the other translated segments, the
\* failed segment has no actual timing and every other translated segment
\* has one.
C3_PartialFailure ==
    Cardinality(Failing) = 1 /\ Len(OrderedSegments(segments)) > 1 =>
        /\ pc \notin {"unwind", "raised"}
        /\ Returned =>
              /\ Len(audio_segments) = Len(OrderedSegments(segments)) - 1
              /\ \A i \in 1..Len(segments) :
                    IF Truthy(segments[i].translated_text) /\ i \notin Failing
                    THEN /\ segments[i].actual_start # Null
                         /\ segments[i].actual_end # Null
                    ELSE /\ segments[i].actual_start = Null
                         /\ segments[i].actual_end = Null

\* The sum of the durations, in ms, of the clips placed.
RECURSIVE SumLen(_)
SumLen(audio) ==
    IF audio = <<>> THEN 0 ELSE ClipLen(Head(audio)) + SumLen(Tail(audio))

\* C8: the combined track lasts as long as the clips placed last together,
\* which is also the actual_end of the last segment in sequencing order, and
\* it has length 0 when there are no clips.
C8_NoAudioDropped ==
    Returned =>
        /\ ClipLen(combined) = SumLen(audio_segments)
        /\ returned = FloatDiv[SumLen(audio_segments), 1000]
        /\ Len(Placed) > 0 => returned = Placed[Len(Placed)].actual_end
        /\ audio_segments = <<>> => ClipLen(combined) = 0

(***************************************************************************)
(* Properties of the worked scenario and of _time_stretch_to_duration.     *)
(***************************************************************************)
\* The actual (start, end) of the three segments, and the float of a time
\* given in ms.
ActualTimings ==
    [i \in 1..3 |-> <<segments[i].actual_start, segments[i].actual_end>>]

Seconds(ms) == FloatDiv[ms, 1000]

\* C5, as amended: in the scenario the three clips are time-stretched to
\* 2000, 2667 and 1000 ms, the segments get (0, 2.0), (2.0, 4.667) and
\* (4.667, 5.667), and the combined track lasts 5667 ms.
C5_ScenarioStretched ==
    Returned =>
        /\ [i \in 1..3 |-> ClipLen(audio_segments[i])] = <<2000, 2667, 1000>>
        /\ ActualTimings = << <<Seconds(0), Seconds(2000)>>,
                              <<Seconds(2000), Seconds(4667)>>,
                              <<Seconds(4667), Seconds(5667)>> >>
        /\ ClipLen(combined) = 5667
        /\ returned = Seconds(5667)

\* C5, as stated: the segments get (0, 2.5), (2.5, 4.5) and (4.5, 5.7) and
\* the combined track lasts 5700 ms.
C5_ScenarioAsStated ==
    Returned =>
        /\ ActualTimings = << <<Seconds(0), Seconds(2500)>>,
                              <<Seconds(2500), Seconds(4500)>>,
                              <<Seconds(4500), Seconds(5700)>> >>
        /\ ClipLen(combined) = 5700
        /\ returned = Seconds(5700)

\* The scenario has run to the end and the subtitles carry its timing.
C5_ScenarioRan ==
    /\ pc = "done"
    /\ Len(audio_segments) = 3
    /\ tts[1] = ScenarioClip(2500, 24000)
    /\ files.translated_srt
          = "1\n00:00:00,000 --> 00:00:02,000\nt\n\n"
              \o "2\n00:00:02,000 --> 00:00:04,667\nt\n\n"
              \o "3\n00:00:04,667 --> 00:00:05,667\nt\n"

\* _time_stretch_to_duration has returned.
StretchDone == call.fn = "_time_stretch_to_duration" /\ call.ret # Null

Abs(n) == IF n < 0 THEN 0 - n ELSE n

\* C6: for a clip of D ms and a target T > 0, the clip returned lasts Dout
\* with D/1.25 <= Dout <= D/0.75 when |D/T - 1| >= 0.05, and is the clip
\* itself when |D/T - 1| < 0.05; the new frame rate, after its truncation to
\* an integer, is never outside [0.75, 1.25] times the clip's frame rate.
C6_NormalizerBound ==
    StretchDone /\ call.target_ms > 0 =>
        LET D    == ClipLen(call.piece)
            Dout == ClipLen(call.ret)
            T    == call.target_ms
            rate == call.piece.frame_rate
            new  == NewFrameRate(call.piece, FloatDiv[D, T])
        IN  IF 20 * Abs(D - T) >= T
            THEN /\ 4 * D <= 5 * Dout
                 /\ 3 * Dout <= 4 * D
                 /\ call.ret # call.piece =>
                        3 * rate <= 4 * new /\ 4 * new <= 5 * rate
            ELSE Dout = D /\ call.ret = call.piece

(***************************************************************************)
(* Properties of write_srt (src/src/transcription.py).                     *)
(***************************************************************************)
\* The pieces of s between the occurrences of the character c.
RECURSIVE SplitOn(_, _)
SplitOn(s, c) ==
    IF Find(s, c) = 0 THEN <<s>>
    ELSE <<SubSeq(s, 1, Find(s, c) - 1)>>
            \o SplitOn(SubSeq(s, Find(s, c) + 1, Len(s)), c)

\* write_srt has returned.
SrtDone == call.fn = "write_srt" /\ call.done

\* The positions i, in order, at which texts[i] is a non-empty string.
WithText(texts) ==
    SelectSeq([i \in 1..Len(texts) |-> i],
              LAMBDA i : texts[i] # NoText /\ texts[i] # "")

\* The file written holds one block (index line, timing line, text line,
\* empty line) per segment whose text in `texts` is non-empty, in segment
\* order, and nothing else.
BlockPerText(texts) ==
    LET kept  == WithText(texts)
        lines == SplitOn(call.file, "\n")
    IN  /\ Len(lines) \div 4 = Len(kept)
        /\ \A k \in 1..Len(kept) :
              /\ lines[4 * k - 3] = Str(call.segments[kept[k]].index)
              /\ lines[4 * k - 1] = Strip(texts[kept[k]])
              /\ lines[4 * k] = ""

\* C4, as amended: for every non-empty segment list and both flags, write_srt
\* emits exactly one block per segment whose selected text is non-empty, in
\* segment order, where the selected text is translated_text when
\* use_translated is set and translated_text is non-empty, and text otherwise.
C4_BlockPerSelectedText ==
    SrtDone /\ call.segments # <<>> =>
        BlockPerText([i \in 1..Len(call.segments) |->
            IF call.use_translated
               /\ call.segments[i].translated_text # NoText
               /\ call.segments[i].translated_text # ""
            THEN call.segments[i].translated_text
            ELSE call.segments[i].text])

\* C4, as stated: the selected text is translated_text when use_translated is
\* set and text otherwise, so that with use_translated set there are as many
\* blocks as segments with a non-empty translated_text.
C4_BlockPerFlagText ==
    SrtDone /\ call.segments # <<>> =>
        BlockPerText([i \in 1..Len(call.segments) |->
            IF call.use_translated
            THEN call.segments[i].translated_text
            ELSE call.segments[i].text])

\* write_srt has written the translated subtitles of three segments: one
\* translated, one untranslated with a text, one with no text at all.
C4_MixedSegmentsWritten ==
    /\ SrtDone
    /\ call.use_translated
    /\ Len(call.segments) = 3
    /\ call.segments[1].translated_text = "t "
    /\ call.segments[2].translated_text = NoText /\ call.segments[2].text = "s"
    /\ call.segments[3].translated_text = "" /\ call.segments[3].text = ""
    /\ Len(SplitOn(call.file, "\n")) = 8

(***************************************************************************)
(* Properties of translate_lines (src/src/gemini_client.py) and of its use *)
(* in run() (src/src/pipeline.py).                                         *)
(***************************************************************************)
\* translate_lines has returned.
TranslateDone == call.fn = "translate_lines" /\ call.done

\* The response is exactly n lines, line k being "k. <text>" with a non-empty
\* <text>; TextOf is the <text> of line k.
WellFormed(resp, n) ==
    /\ Len(SplitOn(resp, "\n")) = n
    /\ \A k \in 1..n :
          LET line == SplitOn(resp, "\n")[k]
          IN  /\ Len(line) > Len(Str(k)) + 2
              /\ SubSeq(line, 1, Len(Str(k)) + 2) = Str(k) \o ". "

TextOf(resp, k) ==
    SubSeq(SplitOn(resp, "\n")[k], Len(Str(k)) + 3, Len(SplitOn(resp, "\n")[k]))

\* C7, as amended: for N >= 1 lines and a response of exactly N lines
\* "k. <text>", k = 1..N in order, translate_lines returns exactly N strings,
\* the i-th being the <text> of line i without its leading and trailing
\* whitespace.
C7_WellFormedStripped ==
    TranslateDone /\ Len(call.lines) >= 1
                  /\ WellFormed(call.response, Len(call.lines)) =>
        call.ret = [k \in 1..Len(call.lines) |->
                        Strip(TextOf(call.response, k))]

\* C7, as stated: the i-th string returned is the <text> of line i.
C7_WellFormedVerbatim ==
    TranslateDone /\ Len(call.lines) >= 1
                  /\ WellFormed(call.response, Len(call.lines)) =>
        call.ret = [k \in 1..Len(call.lines) |-> TextOf(call.response, k)]

\* translate_lines has returned for three lines and the well-formed response
\* "1. a", "2. b ", "3. a".
C7_WellFormedAnswered ==
    /\ TranslateDone
    /\ Len(call.lines) = 3
    /\ call.response = "1. a\n2. b \n3. a"
    /\ call.ret = <<"a", "b", "a">>

\* C9: when the backend returns fewer lines than the N lines requested, the
\* run goes past the translation stage only with N entries returned by
\* translate_lines (the code has no other way out of the stage: nothing
\* flags a mismatch).
C9_NoSilentShortResult ==
    pc # "translate" /\ Len(splitlines(response)) < Len(segments) =>
        Len(translated_lines) = Len(segments)

\* What the lenient pass keeps for one stripped line according to C10: the
\* remainder after a "<digits>." or "<digits>)" marker, or the whole line
\* when it holds no digit.
KeptAsClaimed(line) ==
    IF line = "" THEN <<>>
    ELSE IF MarkerMatch(line) THEN <<Strip(MarkerGroup(line))>>
    ELSE IF \A i \in 1..Len(line) : Char(line, i) \notin Digits THEN <<line>>
    ELSE <<>>

RECURSIVE KeptLinesAsClaimed(_)
KeptLinesAsClaimed(ls) ==
    IF ls = <<>> THEN <<>>
    ELSE KeptAsClaimed(Strip(Head(ls))) \o KeptLinesAsClaimed(Tail(ls))

\* C10: when the primary parse yields a count other than N, and the marker
\* remainders and the digit-free lines of the response, in order, are exactly
\* N, they are the result.
C10_LenientRecovery ==
    TranslateDone /\ call.lines # <<>>
                  /\ Len(translated(Strip(call.response))) # Len(call.lines)
                  /\ Len(KeptLinesAsClaimed(splitlines(Strip(call.response))))
                        = Len(call.lines) =>
        call.ret = KeptLinesAsClaimed(splitlines(Strip(call.response)))

(***************************************************************************)
(* The lifecycle of a segment over a run of the pipeline                   *)
(* (src/src/pipeline.py, src/src/tts.py).                                  *)
(***************************************************************************)
\* The segments that carry a translation.
Translated == {i \in 1..Len(segments) : Truthy(segments[i].translated_text)}

\* What holds of every state of a run: a segment without translated_text
\* has no achieved timing and no clip collected for it, and once the tasks
\* are submitted there is one per translated segment.
LifecycleState ==
    /\ \A i \in 1..Len(segments) :
          i \notin Translated =>
              segments[i].actual_start = Null /\ segments[i].actual_end = Null
    /\ \A k \in 1..Len(pieces) : pieces[k].seg \in Translated
    /\ pc \notin {"translate", "synthesize"} =>
          Len(futures) = Cardinality(Translated)

\* A pool thread ends its task: some future leaves "running".
WorkerStep ==
    /\ Len(futures') = Len(futures)
    /\ \E k \in 1..Len(futures) : futures[k] = "running" /\ futures'[k] # "running"

\* What holds of every step of a run: who writes which field, and when.
LifecycleStep ==
    /\ Len(segments') = Len(segments)
    /\ \A i \in 1..Len(segments) :
          /\ segments'[i].index = segments[i].index
          /\ segments'[i].start = segments[i].start
          /\ segments'[i].end = segments[i].end
          /\ segments'[i].text = segments[i].text
          /\ segments'[i].translated_text # segments[i].translated_text =>
                /\ pc = "translate"
                /\ futures = <<>> /\ futures' = <<>>
          /\ (\/ segments'[i].actual_start # segments[i].actual_start
              \/ segments'[i].actual_end # segments[i].actual_end) =>
                /\ pc = "assemble"
                /\ completed = <<>>
                /\ \A k \in 1..Len(futures) : futures[k] # "running"
    /\ WorkerStep => segments' = segments

\* C11: over a whole run the segment list keeps its length and every segment
\* its index, start, end and text; translated_text is written only by the
\* translation stage, before any synthesis task is submitted; actual_start
\* and actual_end are written only by the assembler, after every submitted
\* task has finished; a pool thread writes no segment field; a segment
\* without translated_text is never synthesized and keeps its achieved timing
\* unset.
C11_SingleWriterPerField == []LifecycleState /\ [][LifecycleStep]_vars

\* A run of three segments has ended in which translation left the third
\* segment without translated_text: two tasks were submitted and finished,
\* the first two segments carry their achieved timing, the third none.
C11_RunWithUntranslatedSegment ==
    /\ pc = "done"
    /\ Len(segments) = 3
    /\ Translated = {1, 2}
    /\ Len(futures) = 2 /\ Len(pieces) = 2
    /\ segments[1].actual_start # Null /\ segments[2].actual_end # Null
    /\ segments[3].actual_start = Null /\ segments[3].actual_end = Null

=============================================================================
